---- MODULE Spec2Model ----
(***************************************************************************)
(* A model of the voice-agent bridge of src/src/demo: the WebRTC bot       *)
(* (bot.py, server.py) and its transcript persistence                      *)
(* (transcription_handler.py).                                             *)
(*                                                                         *)
(* Every connection runs one run_bot coroutine, which owns a transport, a  *)
(* pipeline task, an LLM message list and a TranscriptHandler; all         *)
(* handlers talk to one shared document store.  A coroutine is modelled    *)
(* up to each await that reaches the store or the transport: the store     *)
(* write of save_messages is in flight between the snapshot of the list    *)
(* and the completion of update_one.                                       *)
(***************************************************************************)
EXTENDS Integers, Sequences, FiniteSets, TLC

----------------------------------------------------------------------------
(* Bounds of the model *)

\* number of connections ever opened
MaxConns == 3
\* connections that are live (opened and not yet terminated) at one time
MaxLive == 2
\* longest in-memory message list of a handler
MaxMsgs == 3
\* store writes one handler may have in flight
MaxPending == 2
\* longest list of a handler that is driven directly, without a pipeline
MaxHandlerMsgs == 2
\* turns the connections take together when their stages are followed step by step
MaxStageTurns == 3

----------------------------------------------------------------------------
(* Values *)

\* Python's None
NONE == "None"

Pipelines == 1..MaxConns

\* session identifiers a caller passes to POST /api/offer
SessionIds == {"s1", "s2"}

\* the literal session identifier of the handler run_bot constructs
HardSessionId == "testt"

\* keys of the transcripts collection
Keys == SessionIds \cup {HardSessionId}

\* what a caller says in a turn, and what the LLM answers
Utterances == {"t1"}
Replies == {"t2"}

\* the timestamp the transcript processor stamps on the messages of a turn
TurnTimestamp == "ts1"

SystemPrompt == [role |-> "system", content |-> "prompt"]

GreetingInstruction == [role |-> "system", content |-> "say hello"]

\* pipecat TranscriptionMessage(role, content, user_id, timestamp)
TranscriptionMessage(role, content, timestamp, user_id) ==
    [role |-> role, content |-> content, timestamp |-> timestamp, user_id |-> user_id]

\* the messages a TranscriptionUpdateFrame may carry when a handler is driven
\* directly: both speakers, a timestamp that is a string or None, and a
\* user_id that is set or None
UserMessage == TranscriptionMessage("user", "t1", "ts1", "caller")
AssistantMessage == TranscriptionMessage("assistant", "t2", "ts2", NONE)
UnstampedMessage == TranscriptionMessage("user", "t2", NONE, NONE)

FrameMessages == { UserMessage, AssistantMessage, UnstampedMessage }

\* a frame carries one message, or the two messages of an exchange
Frames == { <<m>> : m \in FrameMessages } \cup { <<UserMessage, AssistantMessage>> }

\* an absent record of the collection
NoDoc == [exists |-> FALSE, messages |-> <<>>]

\* no successful save yet
NoSave == [ok |-> FALSE, list |-> <<>>]

\* the record of a step: the operation and the connection it belongs to
Op(name, p) == [op |-> name, p |-> p]

\* the outcome of a call: a returned value or a raised exception
Return(v) == [kind |-> "return", value |-> v]
Raise(e) == [kind |-> "raise", value |-> e]
NoOutcome == [kind |-> "none", value |-> NONE]

\* the model names an OpenAISTTService of src/demo/stt.py is constructed with:
\* the two its constructor knows and the one its _transcribe tests for
ModelNames == {"zipformer", "whisper-large-v3", "whisper-v3-large"}

\* the OpenAISTTService bot.py constructs
BotStt == [module |-> "demo", model |-> "gpt-4o-mini-transcribe"]

\* the OpenAISTTService bot_fast_api.py constructs: websocket/server/stt.py
WebsocketStt == [module |-> "websocket", model |-> "whisper-large-v3"]

SttServices == {WebsocketStt} \cup { [module |-> "demo", model |-> m] : m \in ModelNames }

\* the audio buffers handed to _transcribe: a WAV file with its channel count
\* and sample width in bytes, or bytes that are no WAV file
Wav(nchannels, sampwidth) == [riff |-> TRUE, nchannels |-> nchannels, sampwidth |-> sampwidth]
NotWav == [riff |-> FALSE, nchannels |-> 0, sampwidth |-> 0]
Audios == { Wav(1, 2), Wav(2, 2), Wav(1, 1), NotWav }

\* the tools an MCP server may offer: the one mcp_server.py registers and the
\* one whose registration it has commented out
Tools == {"gemini_search", "google_search"}

\* the acknowledgment phrase of _tools_dict["google_search"]["text_content"]
FillerText == "filler"

\* what the LLM answers on its own, and what it answers from a tool result
DirectReplies == {"", "t2"}
FinalReply == "t3"

\* no run_tts call yet
NoSynth == [text |-> NONE, chunks |-> <<>>, frames |-> <<>>]

\* no tool call in the turn
NoCall == [name |-> NONE, filler |-> "none", requested |-> FALSE, outcome |-> "none"]

\* no request answered yet
NoResponse == [id |-> NONE, status |-> 0, body |-> <<>>]

\* no function of mcp_server.py has been called
NoMcpCall == [op |-> "none", query |-> NONE, chunks |-> <<>>, request |-> NONE, result |-> <<>>]

\* run_bot has constructed nothing yet
NoHandles == [transport |-> "none", task |-> "none", mongo |-> "none"]

----------------------------------------------------------------------------
(* State *)

VARIABLES
    lifecycle,      \* pipeline -> idle | connecting | active | turn_in_progress | closing | terminated
    client,         \* pipeline -> none | connected | disconnected : the transport's client
    sid,            \* pipeline -> the session_id argument of run_bot
    hkey,           \* pipeline -> TranscriptHandler.session_id (NONE before construction)
    messages,       \* pipeline -> TranscriptHandler.messages
    llm,            \* pipeline -> the message list of the LLMContext
    turn,           \* pipeline -> none | run | user : the turn in flight
    pending,        \* pipeline -> the update_one calls of save_messages in flight
    store,          \* key -> record of the transcripts collection
    loadLog,        \* pipeline -> none | loaded | new | error : the log line of load_session
    lastFrame,      \* pipeline -> the last TranscriptionUpdateFrame delivered
    loadedLen,      \* pipeline -> messages load_session put in the list
    turnsCompleted, \* pipeline -> turns completed on the connection
    savedBy,        \* pipeline -> the list of its last successful save
    lastWriter,     \* key -> the pipeline whose save wrote the record last (0: none)
    lastEnded,      \* session -> the connection of that session that terminated last (0: none)
    pred,           \* pipeline -> lastEnded of its session when it was opened
    lastOp,         \* the operation that took the last step, and its connection
    stt,            \* the OpenAISTTService the pipelines are built with: module and model name
    thread,         \* the pipeline whose blocking call holds the event-loop thread (0: free)
    worker,         \* pipeline -> the recognition asyncio.to_thread runs for it (NONE: none)
    transcription,  \* pipeline -> how its last _transcribe call ended
    step,           \* pipeline -> the stage its turn is at: idle | llm | filler | tool | tts
    synth,          \* pipeline -> the run_tts call in progress
    audio,          \* pipeline -> the samples of the audio frames of its last run_tts, in order
    toolCall,       \* pipeline -> the tool round trip of its turn
    turnErrors,     \* pipeline -> the errors reported on its turns
    response,       \* the last response of GET /api/chat-sessions/{session_id}
    handles,        \* pipeline -> what run_bot holds: transport, pipeline task, MongoDB client
    mcp             \* the last call of a function of mcp_server.py: its arguments and what it sent and returned

\* the state of the stages between transport input and transport output
stageVars == << stt, thread, worker, transcription, step, synth, audio, toolCall, turnErrors >>

vars == << lifecycle, client, sid, hkey, messages, llm, turn, pending, store,
           loadLog, lastFrame, loadedLen, turnsCompleted, savedBy,
           lastWriter, lastEnded, pred, lastOp, stageVars, response, handles, mcp >>

\* what a step of a handler alone leaves unchanged
pipelineVars == << lifecycle, client, sid, llm, turn, turnsCompleted, lastEnded, pred >>

\* no stage of any pipeline has run
StagesIdle ==
    /\ thread = 0
    /\ worker = [p \in Pipelines |-> NONE]
    /\ transcription = [p \in Pipelines |-> NoOutcome]
    /\ step = [p \in Pipelines |-> "idle"]
    /\ synth = [p \in Pipelines |-> NoSynth]
    /\ audio = [p \in Pipelines |-> <<>>]
    /\ toolCall = [p \in Pipelines |-> NoCall]
    /\ turnErrors = [p \in Pipelines |-> {}]

----------------------------------------------------------------------------
(* TranscriptHandler: pure parts *)

\* save_messages: the serialisable form of the list
messages_data(msgs) ==
    [i \in 1..Len(msgs) |->
        [role |-> msgs[i].role, content |-> msgs[i].content,
         timestamp |-> msgs[i].timestamp]]

\* load_session reading the timestamp under a key the record does not have
load_messages_default_timestamp(doc) ==
    [i \in 1..Len(doc.messages) |->
        TranscriptionMessage(doc.messages[i].role, doc.messages[i].content, "", NONE)]

\* load_session: TranscriptionMessage objects rebuilt from a record
load_messages(doc) ==
    [i \in 1..Len(doc.messages) |->
        TranscriptionMessage(doc.messages[i].role, doc.messages[i].content,
                             doc.messages[i].timestamp, NONE)]

\* load_session: the list after a find_one that returned doc
load_session(doc, msgs) ==
    IF doc.exists THEN load_messages(doc) ELSE msgs

\* on_transcript_update appending every message of the frame twice
append_frame_twice(msgs, frame) == msgs \o frame \o frame

\* on_transcript_update: every message of the frame is appended
append_frame(msgs, frame) == msgs \o frame

\* update_one({"session_id": k}, {"$set": session_doc}, upsert=True)
update_one(st, k, data) ==
    [st EXCEPT ![k] = [exists |-> TRUE, messages |-> data]]

\* the collection's $jsonSchema validator: a timestamp is a string
Storable(data) ==
    \A i \in 1..Len(data) : data[i].timestamp # NONE

\* run_bot: the session identifier the handler is constructed with
handler_session_id(s) == HardSessionId

\* run_bot: the LLM message list built from the loaded transcript
initial_llm_messages(msgs) ==
    <<SystemPrompt>> \o
        [i \in 1..Len(msgs) |-> [role |-> msgs[i].role, content |-> msgs[i].content]]

----------------------------------------------------------------------------
(* TranscriptHandler: operations *)

\* a sequence without its i-th element
RemoveAt(q, i) == SubSeq(q, 1, i - 1) \o SubSeq(q, i + 1, Len(q))

\* on_transcript_update saving only the messages of the frame
on_transcript_update_incremental(p, frame) ==
    /\ Len(pending[p]) < MaxPending
    /\ messages' = [messages EXCEPT ![p] = append_frame(@, frame)]
    /\ pending' = [pending EXCEPT ![p] =
            Append(@, [data |-> messages_data(frame), list |-> messages'[p]])]
    /\ lastFrame' = [lastFrame EXCEPT ![p] = frame]

\* on_transcript_update up to the await of update_one: the frame's messages are
\* appended and save_messages takes its snapshot of the whole list
on_transcript_update(p, frame) ==
    /\ Len(pending[p]) < MaxPending
    /\ messages' = [messages EXCEPT ![p] = append_frame(@, frame)]
    /\ pending' = [pending EXCEPT ![p] =
            Append(@, [data |-> messages_data(messages'[p]), list |-> messages'[p]])]
    /\ lastFrame' = [lastFrame EXCEPT ![p] = frame]

\* save_messages: update_one returns; the record is replaced by the snapshot
save_ok(p, i) ==
    /\ lastOp' = Op("save_ok", p)
    /\ UNCHANGED << stageVars, response, mcp, handles >>
    /\ i \in 1..Len(pending[p])
    /\ Storable(pending[p][i].data)
    /\ store' = update_one(store, hkey[p], pending[p][i].data)
    /\ pending' = [pending EXCEPT ![p] = RemoveAt(@, i)]
    /\ savedBy' = [savedBy EXCEPT ![p] = [ok |-> TRUE, list |-> pending[p][i].list]]
    /\ lastWriter' = [lastWriter EXCEPT ![hkey[p]] = p]
    /\ UNCHANGED << messages, lastFrame, loadedLen, loadLog, hkey >>
    /\ UNCHANGED pipelineVars

\* save_messages letting the PyMongoError escape: the pipeline task dies
save_error_escapes(p, i) ==
    /\ lastOp' = Op("save_error", p)
    /\ UNCHANGED << stageVars, response, mcp, handles >>
    /\ i \in 1..Len(pending[p])
    /\ pending' = [pending EXCEPT ![p] = RemoveAt(@, i)]
    /\ lifecycle' = [lifecycle EXCEPT ![p] = "closing"]
    /\ turn' = [turn EXCEPT ![p] = "none"]
    /\ UNCHANGED << store, savedBy, lastWriter, messages, lastFrame, loadedLen, loadLog, hkey >>
    /\ UNCHANGED << client, sid, llm, turnsCompleted, lastEnded, pred >>

\* save_messages removing the record when update_one fails
save_error_drops_record(p, i) ==
    /\ lastOp' = Op("save_error", p)
    /\ UNCHANGED << stageVars, response, mcp, handles >>
    /\ i \in 1..Len(pending[p])
    /\ pending' = [pending EXCEPT ![p] = RemoveAt(@, i)]
    /\ store' = [store EXCEPT ![hkey[p]] = NoDoc]
    /\ UNCHANGED << savedBy, lastWriter, messages, lastFrame, loadedLen, loadLog, hkey >>
    /\ UNCHANGED pipelineVars

\* save_messages: update_one raises PyMongoError; the error is logged
save_error(p, i) ==
    /\ lastOp' = Op("save_error", p)
    /\ UNCHANGED << stageVars, response, mcp, handles >>
    /\ i \in 1..Len(pending[p])
    /\ pending' = [pending EXCEPT ![p] = RemoveAt(@, i)]
    /\ UNCHANGED << store, savedBy, lastWriter, messages, lastFrame, loadedLen, loadLog, hkey >>
    /\ UNCHANGED pipelineVars

----------------------------------------------------------------------------
(* The pipeline of one connection *)

Init ==
    /\ lifecycle = [p \in Pipelines |-> "idle"]
    /\ client = [p \in Pipelines |-> "none"]
    /\ sid = [p \in Pipelines |-> NONE]
    /\ hkey = [p \in Pipelines |-> NONE]
    /\ messages = [p \in Pipelines |-> <<>>]
    /\ llm = [p \in Pipelines |-> <<>>]
    /\ turn = [p \in Pipelines |-> "none"]
    /\ pending = [p \in Pipelines |-> <<>>]
    /\ store = [k \in Keys |-> NoDoc]
    /\ loadLog = [p \in Pipelines |-> "none"]
    /\ lastFrame = [p \in Pipelines |-> <<>>]
    /\ loadedLen = [p \in Pipelines |-> 0]
    /\ turnsCompleted = [p \in Pipelines |-> 0]
    /\ savedBy = [p \in Pipelines |-> NoSave]
    /\ lastWriter = [k \in Keys |-> 0]
    /\ lastEnded = [s \in SessionIds |-> 0]
    /\ pred = [p \in Pipelines |-> 0]
    /\ lastOp = Op("init", 0)
    /\ StagesIdle
    /\ stt = BotStt
    /\ response = NoResponse
    /\ mcp = NoMcpCall
    /\ handles = [p \in Pipelines |-> NoHandles]

\* the connections that are opened and not yet terminated
Live == { q \in Pipelines : lifecycle[q] \notin {"idle", "terminated"} }

\* POST /api/offer: run_bot(connection, session_id) is added as a background
\* task; connections are numbered in the order they are opened
offer(p, s) ==
    /\ lastOp' = Op("offer", p)
    /\ UNCHANGED << stageVars, response, mcp, handles >>
    /\ lifecycle[p] = "idle"
    /\ \A q \in Pipelines : q < p => lifecycle[q] # "idle"
    /\ lifecycle' = [lifecycle EXCEPT ![p] = "connecting"]
    /\ sid' = [sid EXCEPT ![p] = s]
    /\ pred' = [pred EXCEPT ![p] = lastEnded[s]]
    /\ UNCHANGED << client, hkey, messages, llm, turn, pending, store, loadLog, lastFrame, loadedLen, turnsCompleted, savedBy,
                    lastWriter, lastEnded >>

\* run_bot up to runner.run: the stages and the handler are constructed, the
\* transcript is loaded and copied behind the system prompt
run_bot(p) ==
    /\ lastOp' = Op("run_bot", p)
    /\ UNCHANGED << stageVars, response, mcp >>
    /\ handles' = [handles EXCEPT ![p] = [transport |-> "open", task |-> "running", mongo |-> "open"]]
    /\ lifecycle[p] = "connecting"
    /\ hkey[p] = NONE
    /\ hkey' = [hkey EXCEPT ![p] = handler_session_id(sid[p])]
    /\ messages' = [messages EXCEPT ![p] = load_session(store[hkey'[p]], <<>>)]
    /\ loadLog' = [loadLog EXCEPT ![p] =
            IF store[hkey'[p]].exists THEN "loaded" ELSE "new"]
    /\ loadedLen' = [loadedLen EXCEPT ![p] = Len(messages'[p])]
    /\ llm' = [llm EXCEPT ![p] = initial_llm_messages(messages'[p])]
    /\ UNCHANGED << lifecycle, client, sid, turn, pending, store, lastFrame, turnsCompleted, savedBy, lastWriter, lastEnded, pred >>

\* run_bot when find_one raises PyMongoError: load_session logs it and
\* returns False, the list stays empty
run_bot_load_error(p) ==
    /\ lastOp' = Op("run_bot_load_error", p)
    /\ UNCHANGED << stageVars, response, mcp >>
    /\ handles' = [handles EXCEPT ![p] = [transport |-> "open", task |-> "running", mongo |-> "open"]]
    /\ lifecycle[p] = "connecting"
    /\ hkey[p] = NONE
    /\ hkey' = [hkey EXCEPT ![p] = handler_session_id(sid[p])]
    /\ loadLog' = [loadLog EXCEPT ![p] = "error"]
    /\ llm' = [llm EXCEPT ![p] = initial_llm_messages(messages[p])]
    /\ UNCHANGED << lifecycle, client, sid, messages, turn, pending, store, lastFrame, loadedLen, turnsCompleted, savedBy, lastWriter,
                    lastEnded, pred >>

\* on_client_connected appending the greeting instruction whatever was loaded
on_client_connected_always_greets(p) ==
    /\ lastOp' = Op("on_client_connected", p)
    /\ UNCHANGED << stageVars, response, mcp, handles >>
    /\ lifecycle[p] = "connecting"
    /\ hkey[p] # NONE
    /\ client[p] = "none"
    /\ Len(messages[p]) + 1 <= MaxMsgs
    /\ client' = [client EXCEPT ![p] = "connected"]
    /\ llm' = [llm EXCEPT ![p] = Append(@, GreetingInstruction)]
    /\ turn' = [turn EXCEPT ![p] = "run"]
    /\ lifecycle' = [lifecycle EXCEPT ![p] = "turn_in_progress"]
    /\ UNCHANGED << sid, hkey, messages, pending, store, loadLog,
                    lastFrame, loadedLen, turnsCompleted, savedBy, lastWriter,
                    lastEnded, pred >>

\* on_client_connected: the greeting instruction is appended when no transcript
\* was loaded, and an LLMRunFrame is queued
on_client_connected(p) ==
    /\ lastOp' = Op("on_client_connected", p)
    /\ UNCHANGED << stageVars, response, mcp, handles >>
    /\ lifecycle[p] = "connecting"
    /\ hkey[p] # NONE
    /\ client[p] = "none"
    /\ Len(messages[p]) + 1 <= MaxMsgs
    /\ client' = [client EXCEPT ![p] = "connected"]
    /\ llm' = [llm EXCEPT ![p] =
            IF messages[p] = <<>> THEN Append(@, GreetingInstruction) ELSE @]
    /\ turn' = [turn EXCEPT ![p] = "run"]
    /\ lifecycle' = [lifecycle EXCEPT ![p] = "turn_in_progress"]
    /\ UNCHANGED << sid, hkey, messages, pending, store, loadLog,
                    lastFrame, loadedLen, turnsCompleted, savedBy, lastWriter,
                    lastEnded, pred >>

\* the turn detector ends a user utterance: transcript.user() emits the user
\* message, the user aggregator puts it in the context and the LLM runs
end_of_turn(p, text) ==
    /\ lastOp' = Op("end_of_turn", p)
    /\ UNCHANGED << stageVars, response, mcp, handles >>
    /\ lifecycle[p] = "active"
    /\ Len(messages[p]) + 2 <= MaxMsgs
    /\ on_transcript_update(p, <<TranscriptionMessage("user", text, TurnTimestamp, NONE)>>)
    /\ llm' = [llm EXCEPT ![p] = Append(@, [role |-> "user", content |-> text])]
    /\ turn' = [turn EXCEPT ![p] = "user"]
    /\ lifecycle' = [lifecycle EXCEPT ![p] = "turn_in_progress"]
    /\ UNCHANGED << client, sid, hkey, store, loadLog, loadedLen,
                    turnsCompleted, savedBy, lastWriter, lastEnded, pred >>

\* the reply has drained to the transport output: transcript.assistant() emits
\* the assistant message and the assistant aggregator puts it in the context
turn_complete(p, text) ==
    /\ lastOp' = Op("turn_complete", p)
    /\ UNCHANGED << stageVars, response, mcp, handles >>
    /\ lifecycle[p] = "turn_in_progress"
    /\ on_transcript_update(p, <<TranscriptionMessage("assistant", text, TurnTimestamp, NONE)>>)
    /\ llm' = [llm EXCEPT ![p] = Append(@, [role |-> "assistant", content |-> text])]
    /\ turn' = [turn EXCEPT ![p] = "none"]
    /\ lifecycle' = [lifecycle EXCEPT ![p] = "active"]
    /\ turnsCompleted' = [turnsCompleted EXCEPT ![p] = @ + 1]
    /\ UNCHANGED << client, sid, hkey, store, loadLog, loadedLen,
                    savedBy, lastWriter, lastEnded, pred >>

\* on_client_disconnected cancelling every pipeline task of the process
on_client_disconnected_cancels_all(p) ==
    /\ lastOp' = Op("on_client_disconnected", p)
    /\ UNCHANGED << stageVars, response, mcp >>
    /\ handles' = [q \in Pipelines |->
            IF q = p \/ lifecycle[q] \in {"active", "turn_in_progress"}
            THEN [handles[q] EXCEPT !.task = "cancelled"] ELSE handles[q]]
    /\ lifecycle[p] \in {"connecting", "active", "turn_in_progress"}
    /\ hkey[p] # NONE
    /\ client[p] # "disconnected"
    /\ client' = [client EXCEPT ![p] = "disconnected"]
    /\ turn' = [q \in Pipelines |-> "none"]
    /\ lifecycle' = [q \in Pipelines |->
            IF q = p \/ lifecycle[q] \in {"active", "turn_in_progress"}
            THEN "closing" ELSE lifecycle[q]]
    /\ UNCHANGED << sid, hkey, messages, llm, pending, store, loadLog,
                    lastFrame, loadedLen, turnsCompleted, savedBy, lastWriter,
                    lastEnded, pred >>

\* on_client_disconnected that only logs: the task is not cancelled
on_client_disconnected_no_cancel(p) ==
    /\ lastOp' = Op("on_client_disconnected", p)
    /\ UNCHANGED << stageVars, response, mcp >>
    /\ UNCHANGED handles
    /\ lifecycle[p] \in {"connecting", "active", "turn_in_progress"}
    /\ hkey[p] # NONE
    /\ client[p] # "disconnected"
    /\ client' = [client EXCEPT ![p] = "disconnected"]
    /\ UNCHANGED << lifecycle, turn, sid, hkey, messages, llm, pending, store, loadLog,
                    lastFrame, loadedLen, turnsCompleted, savedBy, lastWriter,
                    lastEnded, pred >>

\* on_client_disconnected up to the return of task.cancel(): the pipeline
\* task of this connection is cancelled
on_client_disconnected(p) ==
    /\ lastOp' = Op("on_client_disconnected", p)
    /\ UNCHANGED << stageVars, response, mcp >>
    /\ handles' = [handles EXCEPT ![p].task = "cancelled"]
    /\ lifecycle[p] \in {"connecting", "active", "turn_in_progress"}
    /\ hkey[p] # NONE
    /\ client[p] # "disconnected"
    /\ client' = [client EXCEPT ![p] = "disconnected"]
    /\ turn' = [turn EXCEPT ![p] = "none"]
    /\ lifecycle' = [lifecycle EXCEPT ![p] = "closing"]
    /\ UNCHANGED << sid, hkey, messages, llm, pending, store, loadLog,
                    lastFrame, loadedLen, turnsCompleted, savedBy, lastWriter,
                    lastEnded, pred >>

\* transport.close() returns and runner.run(task) ends: run_bot is over
transport_closed(p) ==
    /\ lastOp' = Op("transport_closed", p)
    /\ UNCHANGED << stageVars, response, mcp >>
    /\ handles' = [handles EXCEPT ![p].transport = "closed"]
    /\ lifecycle[p] = "closing"
    /\ lifecycle' = [lifecycle EXCEPT ![p] = "terminated"]
    /\ lastEnded' = [lastEnded EXCEPT ![sid[p]] = p]
    /\ UNCHANGED << client, sid, hkey, messages, llm, turn, pending, store,
                    loadLog, lastFrame, loadedLen, turnsCompleted,
                    savedBy, lastWriter, pred >>

\* what a connection does once it is opened
Run ==
    \/ \E p \in Pipelines : run_bot(p)
    \/ \E p \in Pipelines : run_bot_load_error(p)
    \/ \E p \in Pipelines : on_client_connected(p)
    \/ \E p \in Pipelines, text \in Utterances : end_of_turn(p, text)
    \/ \E p \in Pipelines, text \in Replies : turn_complete(p, text)
    \/ \E p \in Pipelines, i \in 1..MaxPending : save_ok(p, i)
    \/ \E p \in Pipelines, i \in 1..MaxPending : save_error(p, i)
    \/ \E p \in Pipelines : on_client_disconnected(p)
    \/ \E p \in Pipelines : transport_closed(p)

\* connections overlap: the first MaxLive connections are opened at any time
Next ==
    \/ \E p \in 1..MaxLive, s \in SessionIds : offer(p, s)
    \/ Run

Spec == Init /\ [][Next]_vars

\* connections follow one another: a connection is opened when none is live
\* and no store write is in flight
NextSeq ==
    \/ \E p \in Pipelines, s \in SessionIds :
            /\ Live = {}
            /\ \A q \in Pipelines : pending[q] = <<>>
            /\ offer(p, s)
    \/ Run

SpecSeq == Init /\ [][NextSeq]_vars

\* the session identifier of the connections whose closing is followed to its end
LiveSession == "s1"

\* overlapping connections that are all opened for one session identifier
NextLive ==
    \/ \E p \in 1..MaxLive : offer(p, LiveSession)
    \/ Run

\* the event loop resumes on_client_disconnected after task.cancel(): a
\* connection that is closing is eventually closed
SpecLive ==
    /\ Init
    /\ [][NextLive]_vars
    /\ \A p \in 1..MaxLive : WF_vars(transport_closed(p))

----------------------------------------------------------------------------
(* Handlers driven directly, without a pipeline *)

\* the handler that is constructed
Handlers == {1}

\* TranscriptHandler(session_id = k): an empty list over the shared collection
InitHandlers ==
    /\ lifecycle = [p \in Pipelines |-> "idle"]
    /\ client = [p \in Pipelines |-> "none"]
    /\ sid = [p \in Pipelines |-> NONE]
    /\ hkey \in { h \in [Pipelines -> SessionIds \cup {NONE}] :
                     \A p \in Pipelines : h[p] = NONE <=> p \notin Handlers }
    /\ messages = [p \in Pipelines |-> <<>>]
    /\ llm = [p \in Pipelines |-> <<>>]
    /\ turn = [p \in Pipelines |-> "none"]
    /\ pending = [p \in Pipelines |-> <<>>]
    /\ store = [k \in Keys |-> NoDoc]
    /\ loadLog = [p \in Pipelines |-> "none"]
    /\ lastFrame = [p \in Pipelines |-> <<>>]
    /\ loadedLen = [p \in Pipelines |-> 0]
    /\ turnsCompleted = [p \in Pipelines |-> 0]
    /\ savedBy = [p \in Pipelines |-> NoSave]
    /\ lastWriter = [k \in Keys |-> 0]
    /\ lastEnded = [s \in SessionIds |-> 0]
    /\ pred = [p \in Pipelines |-> 0]
    /\ lastOp = Op("init", 0)
    /\ StagesIdle
    /\ stt = BotStt
    /\ response = NoResponse
    /\ mcp = NoMcpCall
    /\ handles = [p \in Pipelines |->
            IF p \in Handlers THEN [NoHandles EXCEPT !.mongo = "open"] ELSE NoHandles]

\* a TranscriptionUpdateFrame is delivered to on_transcript_update
handler_update(p, frame) ==
    /\ lastOp' = Op("handler_update", p)
    /\ UNCHANGED << stageVars, response, mcp, handles >>
    /\ Len(messages[p]) + Len(frame) <= MaxHandlerMsgs
    /\ on_transcript_update(p, frame)
    /\ UNCHANGED << hkey, store, loadLog, loadedLen, savedBy, lastWriter >>
    /\ UNCHANGED pipelineVars

\* load_session on a constructed handler: find_one returns
handler_load(p) ==
    /\ lastOp' = Op("handler_load", p)
    /\ UNCHANGED << stageVars, response, mcp, handles >>
    /\ messages' = [messages EXCEPT ![p] = load_session(store[hkey[p]], @)]
    /\ loadLog' = [loadLog EXCEPT ![p] = IF store[hkey[p]].exists THEN "loaded" ELSE "new"]
    /\ loadedLen' = [loadedLen EXCEPT ![p] = IF store[hkey[p]].exists THEN Len(messages'[p]) ELSE @]
    /\ UNCHANGED << hkey, pending, store, lastFrame, savedBy, lastWriter >>
    /\ UNCHANGED pipelineVars

\* load_session on a constructed handler: find_one raises PyMongoError
handler_load_error(p) ==
    /\ lastOp' = Op("handler_load_error", p)
    /\ UNCHANGED << stageVars, response, mcp, handles >>
    /\ loadLog' = [loadLog EXCEPT ![p] = "error"]
    /\ UNCHANGED << hkey, messages, pending, store, lastFrame, loadedLen,
                    savedBy, lastWriter >>
    /\ UNCHANGED pipelineVars

NextHandlers ==
    \/ \E p \in Handlers, frame \in Frames : handler_update(p, frame)
    \/ \E p \in Handlers, i \in 1..MaxPending : save_ok(p, i)
    \/ \E p \in Handlers, i \in 1..MaxPending : save_error(p, i)
    \/ \E p \in Handlers : handler_load(p)
    \/ \E p \in Handlers : handler_load_error(p)

SpecHandlers == InitHandlers /\ [][NextHandlers]_vars

\* the session identifier with which the client asks for a session it has not
\* created yet
NewSession == "new"

\* the identifiers GET /api/chat-sessions/{session_id} is called with
RequestIds == Keys \cup {NewSession}

\* the answer of FastAPI to an exception that is no HTTPException
InternalServerError == 500

\* load_chat_session: "new" is answered with an empty list; for any other
\* identifier the handler is asked for get_chat_history, an attribute
\* TranscriptHandler does not have, and the AttributeError leaves the endpoint
load_chat_session(k) ==
    /\ lastOp' = Op("load_chat_session", 0)
    /\ response' = IF k = NewSession
                   THEN [id |-> k, status |-> 200, body |-> <<>>]
                   ELSE [id |-> k, status |-> InternalServerError, body |-> <<>>]
    /\ UNCHANGED << hkey, messages, pending, store, loadLog, lastFrame, loadedLen,
                    savedBy, lastWriter >>
    /\ UNCHANGED << stageVars, handles, mcp >>
    /\ UNCHANGED pipelineVars

\* delete_one({"session_id": k})
delete_one(st, k) == [st EXCEPT ![k] = NoDoc]

\* clear_session: delete_one returns and the list in memory is cleared
clear_session(p) ==
    /\ lastOp' = Op("clear_session", p)
    /\ store' = delete_one(store, hkey[p])
    /\ messages' = [messages EXCEPT ![p] = <<>>]
    /\ lastWriter' = [lastWriter EXCEPT ![hkey[p]] = 0]
    /\ UNCHANGED << hkey, pending, loadLog, lastFrame, loadedLen, savedBy >>
    /\ UNCHANGED << stageVars, response, mcp, handles >>
    /\ UNCHANGED pipelineVars

\* clear_session clearing the list before the delete: the list is empty
\* although delete_one raised
clear_session_error_clears(p) ==
    /\ lastOp' = Op("clear_session_error", p)
    /\ messages' = [messages EXCEPT ![p] = <<>>]
    /\ UNCHANGED << hkey, pending, store, loadLog, lastFrame, loadedLen,
                    savedBy, lastWriter >>
    /\ UNCHANGED << stageVars, response, mcp, handles >>
    /\ UNCHANGED pipelineVars

\* clear_session: delete_one raises PyMongoError; the error is logged and the
\* list in memory is kept
clear_session_error(p) ==
    /\ lastOp' = Op("clear_session_error", p)
    /\ UNCHANGED << hkey, messages, pending, store, loadLog, lastFrame, loadedLen,
                    savedBy, lastWriter >>
    /\ UNCHANGED << stageVars, response, mcp, handles >>
    /\ UNCHANGED pipelineVars

\* the handler with its clear_session
NextStore ==
    \/ NextHandlers
    \/ \E p \in Handlers : clear_session(p)
    \/ \E p \in Handlers : clear_session_error(p)

SpecStore == InitHandlers /\ [][NextStore]_vars

\* the handler of a connection and the session endpoint of server.py over the
\* same collection
NextSessions ==
    \/ NextHandlers
    \/ \E k \in RequestIds : load_chat_session(k)

SpecSessions == InitHandlers /\ [][NextSessions]_vars

----------------------------------------------------------------------------
(* Transcription and synthesis: pure parts *)

\* stt.py read_wave: wave.open rejects bytes that are no WAV file, the two
\* asserts reject a file that is not mono or not 16-bit
read_wave(a) ==
    IF ~a.riff THEN Raise("wave.Error")
    ELSE IF a.nchannels # 1 THEN Raise("AssertionError")
    ELSE IF a.sampwidth # 2 THEN Raise("AssertionError")
    ELSE Return("float32")

\* _transcribe up to asyncio.to_thread: the samples handed to the worker.
\* src/demo/stt.py tests the model name twice and binds samples in neither
\* test for a name it does not know; websocket/server/stt.py passes the bytes
recognition_input(service, a) ==
    IF service.module = "websocket" THEN Return("bytes")
    ELSE IF service.model = "zipformer" THEN read_wave(a)
    ELSE IF service.model = "whisper-v3-large" THEN Return("bytes")
    ELSE Raise("UnboundLocalError")

\* _run_recognition in the worker, and text.lower() on what it returns: the
\* recognizer returns text or fails; for a model name that matches neither test
\* of src/demo/stt.py the function falls off its end and returns None
recognition_output(service, up) ==
    IF service.module = "websocket" \/ service.model = "zipformer"
    THEN IF up THEN Return("t1") ELSE Raise("RuntimeError")
    ELSE Raise("AttributeError")

\* the unit of a sample: a float sample is counted in tenths of full scale
FullScale == 10

\* the largest 16-bit sample
PcmMax == 32767

\* samples of one audio frame (50000 in tts.py)
frame_size == 2

\* np.clip(frame, -1.0, 1.0)
clip(v) == IF v > FullScale THEN FullScale ELSE IF v < -FullScale THEN -FullScale ELSE v

\* (frame * 32767).astype(np.int16): the product is truncated towards zero
to_pcm16(v) ==
    IF clip(v) >= 0 THEN (clip(v) * PcmMax) \div FullScale
    ELSE -((-clip(v) * PcmMax) \div FullScale)

\* one frame as PCM
pcm(frame) == [i \in 1..Len(frame) |-> to_pcm16(frame[i])]

\* split_text_into_chunks(text, max_chars=256): the segments of a text
split_text_into_chunks(text) ==
    CASE text = "" -> <<>>
      [] text = "t2" -> <<"c1">>
      [] text = "t3" -> <<"c2", "c3", "c1">>
      [] text = FillerText -> <<"c2">>

\* tts.infer: the waveform of the backend for a segment, which may be empty
infer(chunk) ==
    CASE chunk = "c1" -> <<5, -15, 10>>
      [] chunk = "c2" -> <<20, -5>>
      [] chunk = "c3" -> <<>>

\* np.pad(frame, (0, frame_size - len(frame)))
pad(frame) == frame \o [i \in 1..(frame_size - Len(frame)) |-> 0]

\* infer_stream_custom yielding the last slice of a waveform as it is, shorter
\* than frame_size
RECURSIVE wav_frames_unpadded(_)
wav_frames_unpadded(wav) ==
    IF wav = <<>> THEN <<>>
    ELSE IF Len(wav) <= frame_size THEN << pcm(wav) >>
    ELSE << pcm(SubSeq(wav, 1, frame_size)) >>
            \o wav_frames_unpadded(SubSeq(wav, frame_size + 1, Len(wav)))

\* infer_stream_custom: the frames of one waveform: slices of frame_size
\* samples, the last one padded with zeros, each converted to PCM
RECURSIVE wav_frames(_)
wav_frames(wav) ==
    IF wav = <<>> THEN <<>>
    ELSE IF Len(wav) <= frame_size THEN << pcm(pad(wav)) >>
    ELSE << pcm(SubSeq(wav, 1, frame_size)) >>
            \o wav_frames(SubSeq(wav, frame_size + 1, Len(wav)))

\* _tools_dict of bot_fast_api.py: the tools that have an acknowledgment phrase
tools_dict == [name \in {"google_search"} |-> [text_content |-> FillerText, run_llm |-> TRUE]]

----------------------------------------------------------------------------
(* The stages of a pipeline: transcription, LLM, tool round trip, synthesis *)

\* the connections that are open
StagePipelines == 1..MaxLive

\* the client of every connection to bot_fast_api.py has connected:
\* on_client_connected has appended the greeting instruction and queued an
\* LLMRunFrame; the pipeline has no TranscriptHandler
InitStages ==
    /\ lifecycle = [p \in Pipelines |-> IF p \in StagePipelines THEN "turn_in_progress" ELSE "idle"]
    /\ client = [p \in Pipelines |-> IF p \in StagePipelines THEN "connected" ELSE "none"]
    /\ sid = [p \in Pipelines |-> NONE]
    /\ hkey = [p \in Pipelines |-> NONE]
    /\ messages = [p \in Pipelines |-> <<>>]
    /\ llm = [p \in Pipelines |->
                IF p \in StagePipelines THEN <<SystemPrompt, GreetingInstruction>> ELSE <<>>]
    /\ turn = [p \in Pipelines |-> IF p \in StagePipelines THEN "run" ELSE "none"]
    /\ pending = [p \in Pipelines |-> <<>>]
    /\ store = [k \in Keys |-> NoDoc]
    /\ loadLog = [p \in Pipelines |-> "none"]
    /\ lastFrame = [p \in Pipelines |-> <<>>]
    /\ loadedLen = [p \in Pipelines |-> 0]
    /\ turnsCompleted = [p \in Pipelines |-> 0]
    /\ savedBy = [p \in Pipelines |-> NoSave]
    /\ lastWriter = [k \in Keys |-> 0]
    /\ lastEnded = [s \in SessionIds |-> 0]
    /\ pred = [p \in Pipelines |-> 0]
    /\ lastOp = Op("init", 0)
    /\ stt \in SttServices
    /\ thread = 0
    /\ worker = [p \in Pipelines |-> NONE]
    /\ transcription = [p \in Pipelines |-> NoOutcome]
    /\ step = [p \in Pipelines |-> IF p \in StagePipelines THEN "llm" ELSE "idle"]
    /\ synth = [p \in Pipelines |-> NoSynth]
    /\ audio = [p \in Pipelines |-> <<>>]
    /\ toolCall = [p \in Pipelines |-> NoCall]
    /\ turnErrors = [p \in Pipelines |-> {}]
    /\ response = NoResponse
    /\ mcp = NoMcpCall
    /\ handles = [p \in Pipelines |->
            IF p \in StagePipelines
            THEN [transport |-> "open", task |-> "running", mongo |-> "none"] ELSE NoHandles]

\* what no stage touches
handlerVars == << sid, hkey, messages, pending, store, loadLog, lastFrame, loadedLen,
                  savedBy, lastWriter, lastEnded, pred, response, stt, mcp >>

\* the sum of f over the connections 1..n
RECURSIVE SumTo(_, _)
SumTo(f, n) == IF n = 0 THEN 0 ELSE f[n] + SumTo(f, n - 1)

\* the turns completed and the turns under way
TurnsTaken ==
    SumTo(turnsCompleted, MaxConns)
        + Cardinality({ q \in Pipelines : lifecycle[q] = "turn_in_progress" \/ worker[q] # NONE })

\* the pipeline task of p is running, and the event loop can resume it
Running(p) == lifecycle[p] \in {"active", "turn_in_progress"} /\ thread = 0

\* an exception leaves a stage of p: the frame processor that called the stage
\* either reports it on the turn, which ends, or fails, and the pipeline task
\* with it
stage_error(p, e, o) ==
    /\ o \in {"reported", "task_failed"}
    /\ turnErrors' = [turnErrors EXCEPT ![p] = IF o = "reported" THEN @ \cup {e} ELSE @]
    /\ lifecycle' = [lifecycle EXCEPT ![p] = IF o = "reported" THEN "active" ELSE "closing"]
    /\ turn' = [turn EXCEPT ![p] = "none"]
    /\ step' = [step EXCEPT ![p] = "idle"]

\* _transcribe calling _run_recognition itself: the recognition runs on the
\* event-loop thread
_transcribe_blocking(p, a, o) ==
    /\ lastOp' = Op("_transcribe", p)
    /\ Running(p)
    /\ lifecycle[p] = "active"
    /\ step[p] = "idle"
    /\ worker[p] = NONE
    /\ TurnsTaken < MaxStageTurns
    /\ IF recognition_input(stt, a).kind = "return"
       THEN /\ o = "reported"
            /\ worker' = [worker EXCEPT ![p] = recognition_input(stt, a).value]
            /\ thread' = p
            /\ transcription' = [transcription EXCEPT ![p] = NoOutcome]
            /\ UNCHANGED << turnErrors, lifecycle, turn, step >>
       ELSE /\ transcription' = [transcription EXCEPT ![p] = recognition_input(stt, a)]
            /\ stage_error(p, recognition_input(stt, a).value, o)
            /\ UNCHANGED << worker, thread >>
    /\ UNCHANGED << client, llm, turnsCompleted, synth, audio, toolCall >>
    /\ UNCHANGED << handlerVars, handles >>

\* _transcribe up to its await: the samples are prepared on the event-loop
\* thread and asyncio.to_thread hands _run_recognition to a worker; an
\* exception of the preparation leaves _transcribe
_transcribe(p, a, o) ==
    /\ lastOp' = Op("_transcribe", p)
    /\ Running(p)
    /\ lifecycle[p] = "active"
    /\ step[p] = "idle"
    /\ worker[p] = NONE
    /\ TurnsTaken < MaxStageTurns
    /\ IF recognition_input(stt, a).kind = "return"
       THEN /\ o = "reported"
            /\ worker' = [worker EXCEPT ![p] = recognition_input(stt, a).value]
            /\ transcription' = [transcription EXCEPT ![p] = NoOutcome]
            /\ UNCHANGED << turnErrors, lifecycle, turn, step >>
       ELSE /\ transcription' = [transcription EXCEPT ![p] = recognition_input(stt, a)]
            /\ stage_error(p, recognition_input(stt, a).value, o)
            /\ UNCHANGED worker
    /\ UNCHANGED << thread, client, llm, turnsCompleted, synth, audio, toolCall >>
    /\ UNCHANGED << handlerVars, handles >>

\* the worker returns and _transcribe resumes: the text becomes the user
\* message of a new turn, an exception of the recognizer leaves _transcribe;
\* a cancelled pipeline task is not resumed
_run_recognition(p, up, o) ==
    /\ lastOp' = Op("_run_recognition", p)
    /\ worker[p] # NONE
    /\ thread \in {0, p}
    /\ worker' = [worker EXCEPT ![p] = NONE]
    /\ thread' = 0
    /\ IF lifecycle[p] # "active"
       THEN /\ o = "reported"
            /\ UNCHANGED << transcription, turnErrors, lifecycle, turn, step, llm, toolCall >>
       ELSE IF recognition_output(stt, up).kind = "return"
       THEN /\ o = "reported"
            /\ transcription' = [transcription EXCEPT ![p] = recognition_output(stt, up)]
            /\ llm' = [llm EXCEPT ![p] =
                    Append(@, [role |-> "user", content |-> recognition_output(stt, up).value])]
            /\ lifecycle' = [lifecycle EXCEPT ![p] = "turn_in_progress"]
            /\ turn' = [turn EXCEPT ![p] = "user"]
            /\ step' = [step EXCEPT ![p] = "llm"]
            /\ toolCall' = [toolCall EXCEPT ![p] = NoCall]
            /\ UNCHANGED turnErrors
       ELSE /\ transcription' = [transcription EXCEPT ![p] = recognition_output(stt, up)]
            /\ stage_error(p, recognition_output(stt, up).value, o)
            /\ UNCHANGED << llm, toolCall >>
    /\ UNCHANGED << client, turnsCompleted, synth, audio >>
    /\ UNCHANGED << handlerVars, handles >>

\* run_tts up to its first inference: TTSStartedFrame is yielded and
\* infer_stream_custom has split the text
start_tts(p, text) ==
    /\ synth' = [synth EXCEPT ![p] =
            [text |-> text, chunks |-> split_text_into_chunks(text), frames |-> <<>>]]
    /\ audio' = [audio EXCEPT ![p] = <<>>]

\* the LLM answers in text, which goes to the synthesis stage: from the tool
\* result when the turn has one, on its own otherwise
llm_answer(p, text) ==
    /\ lastOp' = Op("llm_answer", p)
    /\ Running(p)
    /\ step[p] = "llm"
    /\ text \in (IF toolCall[p].outcome = "result" THEN {FinalReply} ELSE DirectReplies)
    /\ start_tts(p, text)
    /\ step' = [step EXCEPT ![p] = "tts"]
    /\ UNCHANGED << lifecycle, client, llm, turn, turnsCompleted, thread, worker,
                    transcription, toolCall, turnErrors >>
    /\ UNCHANGED << handlerVars, handles >>

\* a tool call that is invoked without waiting for the acknowledgment phrase
llm_tool_call_eager(p, name) ==
    /\ lastOp' = Op("llm_tool_call", p)
    /\ Running(p)
    /\ step[p] = "llm"
    /\ turn[p] = "user"
    /\ toolCall[p] = NoCall
    /\ IF name \in DOMAIN tools_dict
       THEN /\ start_tts(p, tools_dict[name].text_content)
            /\ step' = [step EXCEPT ![p] = "filler"]
            /\ toolCall' = [toolCall EXCEPT ![p] =
                    [name |-> name, filler |-> "queued", requested |-> TRUE, outcome |-> "none"]]
       ELSE /\ step' = [step EXCEPT ![p] = "tool"]
            /\ toolCall' = [toolCall EXCEPT ![p] =
                    [name |-> name, filler |-> "none", requested |-> TRUE, outcome |-> "none"]]
            /\ UNCHANGED << synth, audio >>
    /\ UNCHANGED << lifecycle, client, llm, turn, turnsCompleted, thread, worker,
                    transcription, turnErrors >>
    /\ UNCHANGED << handlerVars, handles >>

\* the LLM resolves the user utterance into one tool call: a tool with an
\* acknowledgment phrase has the phrase queued into the synthesis stage first,
\* any other tool is invoked at once
llm_tool_call(p, name) ==
    /\ lastOp' = Op("llm_tool_call", p)
    /\ Running(p)
    /\ step[p] = "llm"
    /\ turn[p] = "user"
    /\ toolCall[p] = NoCall
    /\ IF name \in DOMAIN tools_dict
       THEN /\ start_tts(p, tools_dict[name].text_content)
            /\ step' = [step EXCEPT ![p] = "filler"]
            /\ toolCall' = [toolCall EXCEPT ![p] =
                    [name |-> name, filler |-> "queued", requested |-> FALSE, outcome |-> "none"]]
       ELSE /\ step' = [step EXCEPT ![p] = "tool"]
            /\ toolCall' = [toolCall EXCEPT ![p] =
                    [name |-> name, filler |-> "none", requested |-> TRUE, outcome |-> "none"]]
            /\ UNCHANGED << synth, audio >>
    /\ UNCHANGED << lifecycle, client, llm, turn, turnsCompleted, thread, worker,
                    transcription, turnErrors >>
    /\ UNCHANGED << handlerVars, handles >>

\* the tool returns its text, which is fed back into the LLM
tool_result(p) ==
    /\ lastOp' = Op("tool_result", p)
    /\ Running(p)
    /\ step[p] = "tool"
    /\ toolCall[p].requested
    /\ toolCall' = [toolCall EXCEPT ![p].outcome = "result"]
    /\ step' = [step EXCEPT ![p] = "llm"]
    /\ UNCHANGED << lifecycle, client, llm, turn, turnsCompleted, thread, worker,
                    transcription, synth, audio, turnErrors >>
    /\ UNCHANGED << handlerVars, handles >>

\* a failed tool call that fails the pipeline task
tool_error_fatal(p, e) ==
    /\ lastOp' = Op("tool_error", p)
    /\ Running(p)
    /\ step[p] = "tool"
    /\ toolCall[p].requested
    /\ e \in {"error", "timeout"}
    /\ toolCall' = [toolCall EXCEPT ![p].outcome = "error"]
    /\ lifecycle' = [lifecycle EXCEPT ![p] = "closing"]
    /\ turn' = [turn EXCEPT ![p] = "none"]
    /\ step' = [step EXCEPT ![p] = "idle"]
    /\ UNCHANGED << client, llm, turnsCompleted, thread, worker,
                    transcription, synth, audio, turnErrors >>
    /\ UNCHANGED << handlerVars, handles >>

\* the tool call errors or times out: ToolExecutionError is reported on the
\* turn and the LLM, told that the tool failed, answers without it
tool_error(p, e) ==
    /\ lastOp' = Op("tool_error", p)
    /\ Running(p)
    /\ step[p] = "tool"
    /\ toolCall[p].requested
    /\ e \in {"error", "timeout"}
    /\ toolCall' = [toolCall EXCEPT ![p].outcome = "error"]
    /\ turnErrors' = [turnErrors EXCEPT ![p] = @ \cup {"ToolExecutionError"}]
    /\ step' = [step EXCEPT ![p] = "llm"]
    /\ UNCHANGED << lifecycle, client, llm, turn, turnsCompleted, thread, worker,
                    transcription, synth, audio >>
    /\ UNCHANGED << handlerVars, handles >>

\* infer_stream_custom calls tts.infer for the next segment: the call runs on
\* the event-loop thread
tts_infer(p) ==
    /\ lastOp' = Op("tts_infer", p)
    /\ Running(p)
    /\ step[p] \in {"tts", "filler"}
    /\ synth[p].frames = <<>>
    /\ synth[p].chunks # <<>>
    /\ thread' = p
    /\ UNCHANGED << lifecycle, client, llm, turn, turnsCompleted, worker,
                    transcription, step, synth, audio, toolCall, turnErrors >>
    /\ UNCHANGED << handlerVars, handles >>

\* tts.infer returns: an empty waveform is skipped, any other is cut into
\* frames and run_tts yields the first of them
tts_infer_done(p) ==
    /\ lastOp' = Op("tts_infer_done", p)
    /\ thread = p
    /\ step[p] \in {"tts", "filler"}
    /\ thread' = 0
    /\ LET frames == wav_frames(infer(Head(synth[p].chunks))) IN
          /\ synth' = [synth EXCEPT ![p].chunks = Tail(@),
                                    ![p].frames = IF frames = <<>> THEN <<>> ELSE Tail(frames)]
          /\ audio' = [audio EXCEPT ![p] = IF frames = <<>> THEN @ ELSE @ \o Head(frames)]
    /\ UNCHANGED << lifecycle, client, llm, turn, turnsCompleted, worker,
                    transcription, step, toolCall, turnErrors >>
    /\ UNCHANGED << handlerVars, handles >>

\* run_tts yields the next frame of the segment
tts_frame(p) ==
    /\ lastOp' = Op("tts_frame", p)
    /\ Running(p)
    /\ step[p] \in {"tts", "filler"}
    /\ synth[p].frames # <<>>
    /\ synth' = [synth EXCEPT ![p].frames = Tail(@)]
    /\ audio' = [audio EXCEPT ![p] = @ \o Head(synth[p].frames)]
    /\ UNCHANGED << lifecycle, client, llm, turn, turnsCompleted, thread, worker,
                    transcription, step, toolCall, turnErrors >>
    /\ UNCHANGED << handlerVars, handles >>

\* run_tts yields TTSStoppedFrame after the acknowledgment phrase: the tool is
\* invoked
filler_stopped(p) ==
    /\ lastOp' = Op("filler_stopped", p)
    /\ Running(p)
    /\ step[p] = "filler"
    /\ synth[p].frames = <<>>
    /\ synth[p].chunks = <<>>
    /\ step' = [step EXCEPT ![p] = "tool"]
    /\ toolCall' = [toolCall EXCEPT ![p].filler = "done", ![p].requested = TRUE]
    /\ UNCHANGED << lifecycle, client, llm, turn, turnsCompleted, thread, worker,
                    transcription, synth, audio, turnErrors >>
    /\ UNCHANGED << handlerVars, handles >>

\* run_tts yields TTSStoppedFrame after the answer: the reply has drained to
\* the transport output and the assistant aggregator puts it in the context
tts_stopped(p) ==
    /\ lastOp' = Op("tts_stopped", p)
    /\ Running(p)
    /\ step[p] = "tts"
    /\ synth[p].frames = <<>>
    /\ synth[p].chunks = <<>>
    /\ llm' = [llm EXCEPT ![p] = Append(@, [role |-> "assistant", content |-> synth[p].text])]
    /\ lifecycle' = [lifecycle EXCEPT ![p] = "active"]
    /\ turn' = [turn EXCEPT ![p] = "none"]
    /\ step' = [step EXCEPT ![p] = "idle"]
    /\ turnsCompleted' = [turnsCompleted EXCEPT ![p] = @ + 1]
    /\ UNCHANGED << client, thread, worker, transcription, synth, audio, toolCall, turnErrors >>
    /\ UNCHANGED << handlerVars, handles >>

\* on_client_disconnected of bot_fast_api.py: the pipeline task is cancelled,
\* and with it the run_tts generator and the tool round trip of the turn
ws_client_disconnected(p) ==
    /\ lastOp' = Op("ws_client_disconnected", p)
    /\ Running(p)
    /\ client[p] = "connected"
    /\ client' = [client EXCEPT ![p] = "disconnected"]
    /\ lifecycle' = [lifecycle EXCEPT ![p] = "closing"]
    /\ turn' = [turn EXCEPT ![p] = "none"]
    /\ step' = [step EXCEPT ![p] = "idle"]
    /\ synth' = [synth EXCEPT ![p] = NoSynth]
    /\ audio' = [audio EXCEPT ![p] = <<>>]
    /\ toolCall' = [toolCall EXCEPT ![p] = NoCall]
    /\ transcription' = [transcription EXCEPT ![p] = NoOutcome]
    /\ turnErrors' = [turnErrors EXCEPT ![p] = {}]
    /\ UNCHANGED << llm, turnsCompleted, thread, worker >>
    /\ handles' = [handles EXCEPT ![p].task = "cancelled"]
    /\ UNCHANGED handlerVars

\* runner.run(task) returns: run_bot of bot_fast_api.py is over
ws_run_ended(p) ==
    /\ lastOp' = Op("ws_run_ended", p)
    /\ lifecycle[p] = "closing"
    /\ thread = 0
    /\ lifecycle' = [lifecycle EXCEPT ![p] = "terminated"]
    /\ UNCHANGED << client, llm, turn, turnsCompleted >>
    /\ UNCHANGED stageVars
    /\ UNCHANGED << handlerVars, handles >>

\* the steps of the pipeline of p
StageStep(p) ==
    \/ \E a \in Audios, o \in {"reported", "task_failed"} : _transcribe(p, a, o)
    \/ \E up \in BOOLEAN, o \in {"reported", "task_failed"} : _run_recognition(p, up, o)
    \/ \E text \in DirectReplies \cup {FinalReply} : llm_answer(p, text)
    \/ \E name \in Tools : llm_tool_call(p, name)
    \/ tool_result(p)
    \/ \E e \in {"error", "timeout"} : tool_error(p, e)
    \/ tts_infer(p)
    \/ tts_infer_done(p)
    \/ tts_frame(p)
    \/ filler_stopped(p)
    \/ tts_stopped(p)
    \/ ws_client_disconnected(p)
    \/ ws_run_ended(p)

NextStages == \E p \in StagePipelines : StageStep(p)

SpecStages == InitStages /\ [][NextStages]_vars

----------------------------------------------------------------------------
(* Properties *)

\* the messages of a role among the first i of a list
CountRole(msgs, role, i) ==
    Cardinality({ j \in 1..i : msgs[j].role = role })

\* the connections whose handler is constructed
Constructed == { p \in Pipelines : hkey[p] # NONE }

\* the messages a connection holds after N completed turns, beyond the loaded
\* ones: the first turn answers the run trigger and adds one assistant message,
\* every later turn adds a user message and its reply
OwnLength(p) ==
    (IF turnsCompleted[p] = 0 THEN 0 ELSE 2 * turnsCompleted[p] - 1)
        + (IF turn[p] = "user" THEN 1 ELSE 0)

C4_Original ==
    \A p, q \in Constructed :
        (p # q /\ p \in Live /\ q \in Live /\ sid[p] # sid[q])
        => /\ hkey[p] = sid[p]
           /\ hkey[p] # hkey[q]

RunTriggers == { q \in Pipelines : client[q] # "none" }

SameTranscript(a, b) ==
    /\ Len(a) = Len(b)
    /\ \A i \in 1..Len(a) :
          /\ a[i].role = b[i].role
          /\ a[i].content = b[i].content
          /\ a[i].timestamp = b[i].timestamp

\* the transcript a connection got from load_session
Loaded(p) == SubSeq(messages[p], 1, loadedLen[p])

\* C2 (as stated): a connection opened with S after an earlier connection of S
\* has ended loads exactly the list that earlier connection saved last.
C2_Original ==
    \A p \in Constructed :
        (pred[p] # 0 /\ savedBy[pred[p]].ok /\ loadLog[p] = "loaded")
        => SameTranscript(Loaded(p), savedBy[pred[p]].list)

\* C3: a load_session that follows a successful save of L under the same
\* session identifier, with no write in between, yields a list equal to L in
\* role, content, timestamp and order.
C3_RoundTrip ==
    [][ \A p \in Constructed :
          (lastOp' = Op("handler_load", p) /\ lastWriter[hkey[p]] # 0)
          => SameTranscript(messages'[p], savedBy[lastWriter[hkey[p]]].list)
      ]_vars

\* C3 witness: a saved list of two messages, the first with a user_id, has
\* been loaded back
C3_Witness ==
    \E p \in Constructed :
        /\ lastOp = Op("handler_load", p)
        /\ lastWriter[hkey[p]] = p
        /\ Len(savedBy[p].list) = 2
        /\ savedBy[p].list[1].user_id # NONE
        /\ Len(messages[p]) = 2

\* a step delivers a transcript update to the handler of p
Delivered(p) == Len(pending'[p]) > Len(pending[p])

\* C9 (as stated): a second delivery of the same transcript update leaves the
\* message list unchanged.
C9_Original ==
    [][ \A p \in Constructed :
          (Delivered(p) /\ lastFrame[p] # <<>> /\ lastFrame'[p] = lastFrame[p])
          => messages'[p] = messages[p]
      ]_vars

C7_CancelIsLocal ==
    [][ \A p \in Pipelines :
          lastOp' = Op("on_client_disconnected", p)
          => \A q \in Pipelines \ {p} :
                /\ lifecycle'[q] = lifecycle[q]
                /\ turn'[q] = turn[q]
                /\ client'[q] = client[q]
                /\ messages'[q] = messages[q]
                /\ llm'[q] = llm[q]
                /\ pending'[q] = pending[q]
      ]_vars

\* C7 witness: a connection is cancelled while another one has a turn in
\* progress and a store write in flight
C7_Witness ==
    \E p, q \in Constructed :
        /\ p # q
        /\ lastOp = Op("on_client_disconnected", p)
        /\ lifecycle[q] = "turn_in_progress"
        /\ turn[q] = "user"
        /\ pending[q] # <<>>

\* one list begins with the other
IsPrefix(a, b) == Len(a) <= Len(b) /\ SubSeq(b, 1, Len(a)) = a

\* C8: the step in which a store write fails changes neither the in-memory
\* list, which still holds the messages of every write in flight, nor the
\* lifecycle state, turn or client of the connection.
C8_SaveErrorIsNotFatal ==
    [][ \A p \in Pipelines :
          lastOp' = Op("save_error", p)
          => /\ messages'[p] = messages[p]
             /\ \A i \in 1..Len(pending[p]) : IsPrefix(pending[p][i].list, messages'[p])
             /\ lifecycle'[p] = lifecycle[p]
             /\ turn'[p] = turn[p]
             /\ client'[p] = client[p]
      ]_vars

\* C8 witness: a store write of the connection failed while its turn was in
\* progress: nothing of the list is in the store, and the turn has completed
\* since
C8_Witness ==
    \E p \in Constructed :
        /\ lastOp = Op("turn_complete", p)
        /\ turn[p] = "none"
        /\ turnsCompleted[p] = 2
        /\ ~savedBy[p].ok
        /\ Len(pending[p]) = 1
        /\ Len(messages[p]) = 3

\* the samples of a sequence of frames, in order
RECURSIVE Flatten(_)
Flatten(frames) == IF frames = <<>> THEN <<>> ELSE Head(frames) \o Flatten(Tail(frames))

\* the samples run_tts emits for a sequence of segments
RECURSIVE chunks_audio(_)
chunks_audio(chunks) ==
    IF chunks = <<>> THEN <<>>
    ELSE Flatten(wav_frames(infer(Head(chunks)))) \o chunks_audio(Tail(chunks))

\* the last message of the LLM context of p
LastMessage(p) == llm[p][Len(llm[p])]

\* the tool call of p is to a tool that has an acknowledgment phrase
Flagged(call) == call.name \in DOMAIN tools_dict

\* C11: in the step that requests the result of a tool with an acknowledgment
\* phrase, the synthesis of the phrase has ended with all its audio emitted;
\* and the step that completes such a turn appends, as the assistant message,
\* the text the LLM produced from the tool result, not the phrase.
C11_FillerBeforeToolResult ==
    [][ \A p \in StagePipelines :
          /\ ( /\ Flagged(toolCall'[p])
               /\ toolCall'[p].requested
               /\ ~toolCall[p].requested )
             => /\ synth[p].text = FillerText
                /\ synth[p].chunks = <<>>
                /\ synth[p].frames = <<>>
                /\ audio[p] = chunks_audio(split_text_into_chunks(FillerText))
          /\ ( /\ lastOp' = Op("tts_stopped", p)
               /\ Flagged(toolCall[p])
               /\ toolCall[p].outcome = "result" )
             => /\ Len(llm'[p]) = Len(llm[p]) + 1
                /\ llm'[p][Len(llm'[p])] = [role |-> "assistant", content |-> FinalReply]
                /\ llm'[p][Len(llm'[p])].content # FillerText
      ]_vars

\* C11 witness: a turn with one call of google_search has completed: the
\* phrase was synthesized, the tool returned, and the assistant message is the
\* text produced from the result
C11_Witness ==
    \E p \in StagePipelines :
        /\ lastOp = Op("tts_stopped", p)
        /\ toolCall[p].name = "google_search"
        /\ toolCall[p].filler = "done"
        /\ toolCall[p].outcome = "result"
        /\ LastMessage(p) = [role |-> "assistant", content |-> FinalReply]

\* the run_tts call of p has yielded all its audio frames
Synthesized(p) ==
    /\ synth[p].text # NONE
    /\ synth[p].chunks = <<>>
    /\ synth[p].frames = <<>>

\* the waveform of the backend for a sequence of segments
RECURSIVE backend_waveform(_)
backend_waveform(chunks) ==
    IF chunks = <<>> THEN <<>>
    ELSE infer(Head(chunks)) \o backend_waveform(Tail(chunks))

\* C12 (as stated): the audio frames run_tts has emitted for a text,
\* concatenated in emission order, are the waveform of the backend for that
\* text as PCM: no sample is inserted and none is out of order.
C12_Original ==
    \A p \in StagePipelines :
        Synthesized(p)
        => audio[p] = pcm(backend_waveform(split_text_into_chunks(synth[p].text)))

\* C14: the step in which a tool call errors or times out reports
\* ToolExecutionError on the turn and hands the turn back to the LLM; the
\* pipeline keeps its turn in progress and its client connected.
C14_ToolErrorIsTurnLevel ==
    [][ \A p \in StagePipelines :
          lastOp' = Op("tool_error", p)
          => /\ "ToolExecutionError" \in turnErrors'[p]
             /\ toolCall'[p].outcome = "error"
             /\ step'[p] = "llm"
             /\ lifecycle'[p] = "turn_in_progress"
             /\ turn'[p] = turn[p]
             /\ client'[p] = "connected"
      ]_vars

\* C14 witness: after a turn whose tool call failed has completed, the
\* connection has taken the audio of the next turn
C14_Witness ==
    \E p \in StagePipelines :
        /\ lastOp = Op("_transcribe", p)
        /\ worker[p] # NONE
        /\ "ToolExecutionError" \in turnErrors[p]
        /\ toolCall[p].outcome = "error"
        /\ LastMessage(p).role = "assistant"
        /\ lifecycle[p] = "active"
        /\ client[p] = "connected"

\* C16 (as stated): whatever model name the transcription stage of
\* src/demo/stt.py was constructed with and whatever audio it is handed, the
\* outcome of a transcription is a text or a TranscriptionError, and no other
\* kind of error.
C16_Original ==
    \A p \in StagePipelines :
        (stt.module = "demo" /\ transcription[p] # NoOutcome)
        => \/ transcription[p].kind = "return"
           \/ transcription[p] = Raise("TranscriptionError")

\* the pipelines whose task is running
ActivePipelines == { p \in StagePipelines : lifecycle[p] \in {"active", "turn_in_progress"} }

\* pipeline p is inside tts.infer
Inferring(p) == thread = p /\ worker[p] = NONE /\ step[p] \in {"tts", "filler"}

\* C17 (as stated): while one pipeline is running synthesis inference for a
\* text segment, every other active pipeline can take a step.
C17_Original ==
    \A p \in StagePipelines : \A q \in ActivePipelines \ {p} :
        Inferring(p) => ENABLED StageStep(q)

\* C18: while the recognition of one pipeline is with a worker, that pipeline
\* does not hold the event-loop thread, and unless another pipeline holds it
\* every other active pipeline can take a step.
C18_TranscriptionOffloaded ==
    \A p \in StagePipelines :
        worker[p] # NONE
        => /\ thread # p
           /\ thread = 0 => \A q \in ActivePipelines \ {p} : ENABLED StageStep(q)

\* C18 witness: another pipeline has gone on with its turn while the
\* recognition of p was with its worker
C18_Witness ==
    \E p \in StagePipelines : \E q \in ActivePipelines \ {p} :
        /\ worker[p] # NONE
        /\ lifecycle[p] = "active"
        /\ lastOp = Op("tts_frame", q)
        /\ audio[q] # <<>>

\* C19 (as stated): the get-session endpoint answers with the ordered message
\* list of the record when the store holds a record for the identifier, and
\* with 404 when it holds none.
C19_Original ==
    [][ lastOp' = Op("load_chat_session", 0)
        => IF response'.id \in Keys /\ store[response'.id].exists
           THEN /\ response'.status = 200
                /\ response'.body = store[response'.id].messages
           ELSE response'.status = 404
      ]_vars

\* C20: a step that removes a record of the store is a clear_session.
C20_DeletedOnlyByClear ==
    [][ \A k \in Keys :
          (store[k].exists /\ ~store'[k].exists) => lastOp'.op = "clear_session"
      ]_vars

\* C20 witness: the record a handler had saved, and loaded back, is gone
\* after its clear_session
C20_Witness ==
    \E p \in Constructed :
        /\ lastOp = Op("clear_session", p)
        /\ savedBy[p].ok
        /\ loadLog[p] = "loaded"
        /\ ~store[hkey[p]].exists
        /\ messages[p] = <<>>

\* C21 (as stated): a pipeline that was cancelled by a disconnect and has
\* terminated holds no handle: its transport is closed, its pipeline task is
\* cancelled and the MongoDB client opened for it is closed.
C21_Original ==
    \A p \in Pipelines :
        (lifecycle[p] = "terminated" /\ client[p] = "disconnected")
        => /\ handles[p].transport = "closed"
           /\ handles[p].task = "cancelled"
           /\ handles[p].mongo = "closed"

\* an on_transcript_update call of p returns: its update_one is no longer in
\* flight
Returned(p) == Len(pending'[p]) < Len(pending[p])

\* a transcript update of p issues one update_one whose message list is the
\* whole list in memory after the append: the earlier messages and the new ones
IssuesFullUpsert(p) ==
    Delivered(p)
    => /\ Len(pending'[p]) = Len(pending[p]) + 1
       /\ messages'[p] = messages[p] \o lastFrame'[p]
       /\ pending'[p][Len(pending'[p])].data = messages_data(messages'[p])

\* the call of p that returns has put the list of its update_one in the record
WroteItsList(p) ==
    \E i \in 1..Len(pending[p]) :
        /\ pending'[p] = RemoveAt(pending[p], i)
        /\ store'[hkey[p]] = [exists |-> TRUE, messages |-> pending[p][i].data]

\* C22 (as stated): every transcript update writes to the store, before
\* on_transcript_update returns, one upsert whose message list is the complete
\* in-memory list of the moment of the update, never only the new messages.
C22_Original ==
    [][ \A p \in Constructed :
          /\ IssuesFullUpsert(p)
          /\ Returned(p) => WroteItsList(p)
      ]_vars

\* C22 (amended): every transcript update issues one upsert whose message list
\* is the complete in-memory list of the moment of the update; when
\* on_transcript_update returns, either that list is the stored list, or
\* update_one failed with a store error and the store is as it was.
C22_FullUpsert ==
    [][ \A p \in Constructed :
          /\ IssuesFullUpsert(p)
          /\ Returned(p)
             => \/ WroteItsList(p)
                \/ lastOp' = Op("save_error", p) /\ store' = store
      ]_vars

\* C22 witness: the write of a second update of one message has put both
\* messages in the record
C22_Witness ==
    \E p \in Constructed :
        /\ lastOp = Op("save_ok", p)
        /\ Len(lastFrame[p]) = 1
        /\ Len(messages[p]) = 2
        /\ loadLog[p] = "none"
        /\ pending[p] = <<>>
        /\ store[hkey[p]].messages = messages_data(messages[p])

\* ceil(n / frame_size)
FrameCount(n) == (n + frame_size - 1) \div frame_size

\* the frames of the segment whose inference ends in this step: the one the
\* step emits and the ones still to be emitted
SegmentFrames(p) ==
    IF Len(audio'[p]) = Len(audio[p]) THEN <<>>
    ELSE << SubSeq(audio'[p], Len(audio[p]) + 1, Len(audio'[p])) >> \o synth'[p].frames

\* frame j of a waveform: its samples from offset (j - 1) * frame_size on, as
\* PCM, and zeros behind the end of the waveform
FrameAt(wav, j) ==
    [i \in 1..frame_size |->
        IF (j - 1) * frame_size + i <= Len(wav)
        THEN to_pcm16(wav[(j - 1) * frame_size + i]) ELSE 0]

\* C24: the inference of a segment whose waveform has L samples is followed by
\* ceil(L / frame_size) frames of exactly frame_size samples each, in
\* increasing sample offset; the segments are taken in text order, and every
\* frame is emitted whole, in the order of the frames of its segment.
C24_FixedSizeFrames ==
    [][ \A p \in StagePipelines :
          /\ lastOp' = Op("tts_infer_done", p)
             => /\ synth[p].chunks # <<>> /\ synth[p].frames = <<>>
                /\ synth'[p].chunks = Tail(synth[p].chunks)
                /\ Len(SegmentFrames(p)) = FrameCount(Len(infer(Head(synth[p].chunks))))
                /\ \A j \in 1..Len(SegmentFrames(p)) :
                      SegmentFrames(p)[j] = FrameAt(infer(Head(synth[p].chunks)), j)
          /\ lastOp' = Op("tts_frame", p)
             => /\ Len(Head(synth[p].frames)) = frame_size
                /\ audio'[p] = audio[p] \o Head(synth[p].frames)
                /\ synth'[p].frames = Tail(synth[p].frames)
                /\ synth'[p].chunks = synth[p].chunks
      ]_vars

\* C24 witness: a reply of three segments, with waveforms of 2, 0 and 3
\* samples, has been emitted as 1 + 0 + 2 frames
C24_Witness ==
    \E p \in StagePipelines :
        /\ Synthesized(p)
        /\ synth[p].text = FinalReply
        /\ lastOp = Op("tts_frame", p)
        /\ Len(audio[p]) = 3 * frame_size
        /\ audio[p] = chunks_audio(split_text_into_chunks(FinalReply))

\* C25 (as stated): on a handler whose updates overlap, a save that completes
\* never replaces a longer stored list with a shorter one, and the save that
\* completes last leaves the stored list equal to the list in memory.
C25_Original ==
    [][ \A p \in Constructed :
          (lastOp' = Op("save_ok", p) /\ loadLog[p] = "none")
          => /\ Len(store'[hkey[p]].messages) >= Len(store[hkey[p]].messages)
             /\ pending'[p] = <<>>
                => store'[hkey[p]].messages = messages_data(messages'[p])
      ]_vars

\* C26 (as stated): on a connection whose load_session failed with a store
\* error, a save leaves the messages that an earlier connection had stored for
\* the session in the record.
C26_Original ==
    [][ \A p \in Constructed :
          ( /\ lastOp' = Op("save_ok", p)
            /\ loadLog[p] = "error"
            /\ lastWriter[hkey[p]] \notin {0, p} )
          => IsPrefix(store[hkey[p]].messages, store'[hkey[p]].messages)
      ]_vars

C28_ClearAllOrNothing ==
    [][ \A p \in Constructed :
          /\ lastOp' = Op("clear_session", p)
             => /\ ~store'[hkey[p]].exists
                /\ store'[hkey[p]].messages = <<>>
                /\ messages'[p] = <<>>
          /\ lastOp' = Op("clear_session_error", p)
             => /\ messages'[p] = messages[p]
                /\ lifecycle'[p] = lifecycle[p]
                /\ hkey'[p] = hkey[p]
      ]_vars

\* C28 witness: a handler whose list of two messages is stored has failed to
\* clear its session, and keeps the list and the record
C28_Witness ==
    \E p \in Constructed :
        /\ lastOp = Op("clear_session_error", p)
        /\ Len(messages[p]) = 2
        /\ store[hkey[p]].exists
        /\ store[hkey[p]].messages = messages_data(messages[p])

----------------------------------------------------------------------------
(* mcp_server.py: the search tool and the reranker *)

\* longest chunk list handed to reranker
MaxChunks == 5

\* chunks of one request to the scoring service (30 in mcp_server.py)
payload_chunk_size == 3

\* chunks reranker returns (3 in mcp_server.py)
best_results == 2

\* the question gemini_search assigns to query before it calls the model
HardQuery == "q0"

\* the query arguments of a tool call
Queries == {"q1", "q2", HardQuery}

\* the scores the scoring service gives a chunk for a query
Scores == 1..2

\* a chunk list: each chunk a text, here its position in the list, with the
\* score the scoring service has for it
ChunkLists ==
    UNION { { [i \in 1..n |-> [text |-> i, score |-> f[i]]] : f \in [1..n -> Scores] }
            : n \in 0..MaxChunks }

\* gemini_search up to generate_content: the contents sent to the model
gemini_request(query) == [model |-> "gemini-2.5-flash", contents |-> HardQuery]

\* the scoring service for one batch: an item for every text, with its index in
\* the batch, counted from 0, and its score
batch_items(batch) == [i \in 1..Len(batch) |-> [index |-> i - 1, score |-> batch[i].score]]

\* the position of the item of highest score in a list of items, the first
\* among equals
Highest(items) ==
    CHOOSE i \in 1..Len(items) :
        /\ \A j \in 1..Len(items) : items[j].score <= items[i].score
        /\ \A j \in 1..(i - 1) : items[j].score < items[i].score

\* the scoring service's answer: the items of a batch by decreasing score
RECURSIVE rerank_result(_)
rerank_result(items) ==
    IF items = <<>> THEN <<>>
    ELSE << items[Highest(items)] >> \o rerank_result(RemoveAt(items, Highest(items)))

\* reranker, the loop body: the first best_results items of the answer get the
\* offset of their batch added to their index, and the whole answer is kept
batch_results(batch, start_idx) ==
    LET answer == rerank_result(batch_items(batch)) IN
        [k \in 1..Len(answer) |->
            IF k <= best_results
            THEN [answer[k] EXCEPT !.index = @ + start_idx]
            ELSE answer[k]]

\* reranker, the loop: the answers of the batches from start_idx on, one batch
\* of payload_chunk_size chunks after the other
RECURSIVE all_results(_, _)
all_results(chunks, start_idx) ==
    IF start_idx >= Len(chunks) THEN <<>>
    ELSE LET last == IF start_idx + payload_chunk_size <= Len(chunks)
                     THEN start_idx + payload_chunk_size ELSE Len(chunks) IN
            batch_results(SubSeq(chunks, start_idx + 1, last), start_idx)
                \o all_results(chunks, start_idx + payload_chunk_size)

\* results[:best_results]
first_results(results) ==
    SubSeq(results, 1, IF Len(results) < best_results THEN Len(results) ELSE best_results)

\* reranker: the chunks at the indexes of the first best_results kept items
reranker(query, chunks) ==
    LET results == all_results(chunks, 0) IN
        [k \in 1..Len(first_results(results)) |-> chunks[results[k].index + 1]]

\* gemini_search(query) is called
gemini_search(query) ==
    /\ lastOp' = Op("gemini_search", 0)
    /\ mcp' = [op |-> "gemini_search", query |-> query, chunks |-> <<>>,
               request |-> gemini_request(query).contents, result |-> <<>>]
    /\ UNCHANGED << stageVars, response, handles >>
    /\ UNCHANGED << hkey, messages, pending, store, loadLog, lastFrame, loadedLen,
                    savedBy, lastWriter >>
    /\ UNCHANGED pipelineVars

\* reranker(query, chunks) is called
call_reranker(query, chunks) ==
    /\ lastOp' = Op("reranker", 0)
    /\ mcp' = [op |-> "reranker", query |-> query, chunks |-> chunks,
               request |-> NONE, result |-> reranker(query, chunks)]
    /\ UNCHANGED << stageVars, response, handles >>
    /\ UNCHANGED << hkey, messages, pending, store, loadLog, lastFrame, loadedLen,
                    savedBy, lastWriter >>
    /\ UNCHANGED pipelineVars

\* the MCP server process: its functions are called one after the other
NextMcp ==
    \/ \E query \in Queries : gemini_search(query)
    \/ \E query \in Queries, chunks \in ChunkLists : call_reranker(query, chunks)

SpecMcp == Init /\ [][NextMcp]_vars

\* C29 (as stated): the content gemini_search sends to the search model is the
\* query it was called with.
C29_Original ==
    mcp.op = "gemini_search" => mcp.request = mcp.query

\* the chunks of a list that reranker did not return
NotReturned(chunks, best) ==
    { i \in 1..Len(chunks) : \A k \in 1..Len(best) : best[k] # chunks[i] }

\* C30 (as stated): reranker returns at most best_results chunks, each a chunk
\* of the input list, and no chunk it left out has a higher score than one it
\* returned: they are the best_results best over all batches.
C30_Original ==
    mcp.op = "reranker"
    => /\ Len(mcp.result) = (IF Len(mcp.chunks) < best_results THEN Len(mcp.chunks) ELSE best_results)
       /\ \A k \in 1..Len(mcp.result) : \E i \in 1..Len(mcp.chunks) : mcp.result[k] = mcp.chunks[i]
       /\ \A k \in 1..Len(mcp.result) : \A i \in NotReturned(mcp.chunks, mcp.result) :
             mcp.chunks[i].score <= mcp.result[k].score

====
